---- MODULE Spec2Model ----
(***************************************************************************)
(* A model of the game_die crate (src/src/lib.rs), built with the          *)
(* "history" feature enabled: one DieBuilder, configured through sides()   *)
(* and rng(), consumed by build() into one Die, which is then rolled and   *)
(* inspected.                                                              *)
(***************************************************************************)
EXTENDS Integers, Sequences, FiniteSets, TLC

\* ------------------------------------------------------------------ bounds
\* Largest argument handed to DieBuilder::sides (arguments are 0..MaxSides).
MaxSides == 6
\* Most sides()/rng() calls made on one builder.
MaxCalls == 3
\* Most roll() calls made on one die.
MaxRolls == 3
\* Most get_history() calls made between two rolls.
MaxReads == 2

\* --------------------------------------------------------------- constants
\* Largest value of a u8 (the type of sides, of the bounds and of a roll).
U8Max == 255
\* The side count DieBuilder::new starts from.
DefaultSides == 6

U8 == 0..U8Max
SidesArgs == 0..MaxSides

\* The implementations of the DieRng trait a builder can be configured with:
\* the crate's default, the test suite's stub, and a user's own source.
DieStdRng == "DieStdRng"
DieTerribleRng == "_DieTerribleRng"
UserRng == "UserRng"
RngImpls == {DieStdRng, DieTerribleRng, UserRng}

\* Placeholders of a value that does not exist (yet, or any more).
NoRng == "none"
NoBuilder == [sides |-> 0, rng |-> NoRng]
NoDie == [sides |-> 0, rng |-> NoRng, history |-> <<>>]
NoCall == <<0, 0>>

VARIABLES
    pc,        \* "builder": the builder is live; "die": it was built into the
               \* die; "panicked": a roll unwound out of the random source
    builder,   \* the DieBuilder: [sides, rng]
    die,       \* the Die: [sides, rng, history]
    op,        \* the last operation called
    log,       \* the sides()/rng() calls made on the live builder, in order
    lastCall,  \* <<l, h>> of the last random_int call roll() made
    rolled,    \* the values roll() returned, in call order
    observed,  \* the vector the last get_history() call returned
    reads      \* the get_history() calls made since the last roll()

vars == <<pc, builder, die, op, log, lastCall, rolled, observed, reads>>

\* ------------------------------------------------------- random sources
\* DieStdRng::random_int: gen_range(l..h) draws from the half-open range,
\* and panics on an empty one (no outcome).
DieStdRng_random_int_inclusive(l, h) == {r \in U8 : l <= r /\ r <= h}
DieStdRng_random_int(l, h) == {r \in U8 : l <= r /\ r < h}

\* _DieTerribleRng::random_int of the tests: always its lower bound.
DieTerribleRng_random_int(l, h) == {l}

\* A user's implementation of the trait may return any u8; its outcomes are
\* represented by the extremes and both bounds.
UserRng_random_int(l, h) == {0, l, h, U8Max}

\* self.rng.random_int(l, h): dynamic dispatch on the boxed source.
random_int(rng, l, h) ==
    CASE rng = DieStdRng -> DieStdRng_random_int(l, h)
      [] rng = DieTerribleRng -> DieTerribleRng_random_int(l, h)
      [] OTHER -> UserRng_random_int(l, h)

\* ------------------------------------------------------------- DieBuilder
DieBuilder_new == [sides |-> DefaultSides, rng |-> DieStdRng]

DieBuilder_sides_unchecked(self, sides) == [self EXCEPT !.sides = sides]
DieBuilder_sides_default(self, sides) ==
    [self EXCEPT !.sides = IF sides > 1 THEN sides ELSE DefaultSides]
DieBuilder_sides(self, sides) ==
    IF sides > 1 THEN [self EXCEPT !.sides = sides] ELSE self

DieBuilder_rng_reset(self, rng) == [sides |-> DefaultSides, rng |-> rng]
DieBuilder_rng(self, rng) == [self EXCEPT !.rng = rng]

DieBuilder_build_default(self) ==
    [sides |-> DefaultSides, rng |-> self.rng, history |-> <<>>]
DieBuilder_build(self) ==
    [sides |-> self.sides, rng |-> self.rng, history |-> <<>>]

\* -------------------------------------------------------------------- Die
\* The bounds roll() hands to the random source.
roll_bounds_zero(self) == <<0, self.sides>>
roll_bounds_swapped(self) == <<self.sides, 1>>
roll_bounds(self) == <<1, self.sides>>

\* self.history.push(ret)
push_front(history, ret) == <<ret>> \o history
push(history, ret) == Append(history, ret)

\* self.history.clone()
get_history(self) == self.history

\* ---------------------------------------------------------------- actions
Init ==
    /\ pc = "builder"
    /\ builder = DieBuilder_new
    /\ die = NoDie
    /\ op = "new"
    /\ log = <<>>
    /\ lastCall = NoCall
    /\ rolled = <<>>
    /\ observed = <<>>
    /\ reads = 0

Sides ==
    /\ pc = "builder"
    /\ Len(log) < MaxCalls
    /\ \E n \in SidesArgs :
        /\ builder' = DieBuilder_sides(builder, n)
        /\ log' = Append(log, <<"sides", n>>)
    /\ op' = "sides"
    /\ UNCHANGED <<pc, die, lastCall, rolled, observed, reads>>

Rng ==
    /\ pc = "builder"
    /\ Len(log) < MaxCalls
    /\ \E r \in RngImpls :
        /\ builder' = DieBuilder_rng(builder, r)
        /\ log' = Append(log, <<"rng", r>>)
    /\ op' = "rng"
    /\ UNCHANGED <<pc, die, lastCall, rolled, observed, reads>>

Build ==
    /\ pc = "builder"
    /\ die' = DieBuilder_build(builder)
    /\ builder' = NoBuilder
    /\ pc' = "die"
    /\ op' = "build"
    /\ log' = <<>>
    /\ UNCHANGED <<lastCall, rolled, observed, reads>>

Roll ==
    /\ pc = "die"
    /\ Len(rolled) < MaxRolls
    /\ LET b == roll_bounds(die)
           outcomes == random_int(die.rng, b[1], b[2])
       IN  /\ lastCall' = b
           /\ IF outcomes = {}
              THEN /\ pc' = "panicked"
                   /\ UNCHANGED <<die, rolled>>
              ELSE /\ \E ret \in outcomes :
                        /\ die' = [die EXCEPT !.history = push(@, ret)]
                        /\ rolled' = Append(rolled, ret)
                   /\ pc' = pc
    /\ op' = "roll"
    /\ reads' = 0
    /\ UNCHANGED <<builder, log, observed>>

GetHistory_drain ==
    /\ pc = "die"
    /\ reads < MaxReads
    /\ reads' = reads + 1
    /\ observed' = get_history(die)
    /\ die' = [die EXCEPT !.history = <<>>]
    /\ op' = "get_history"
    /\ UNCHANGED <<pc, builder, log, lastCall, rolled>>
GetHistory ==
    /\ pc = "die"
    /\ reads < MaxReads
    /\ reads' = reads + 1
    /\ observed' = get_history(die)
    /\ op' = "get_history"
    /\ UNCHANGED <<pc, builder, die, log, lastCall, rolled>>

Next == Sides \/ Rng \/ Build \/ Roll \/ GetHistory

Spec == Init /\ [][Next]_vars

\* ----------------------------------------------------------------- claims
Last(s) == s[Len(s)]

\* The calls of the log that set a side count: sides(n) with n > 1.
ValidSidesCalls(l) == {i \in 1..Len(l) : l[i][1] = "sides" /\ l[i][2] > 1}
RngCalls(l) == {i \in 1..Len(l) : l[i][1] = "rng"}
Latest(S) == CHOOSE i \in S : \A j \in S : j <= i
LastSidesArg(l) ==
    IF ValidSidesCalls(l) = {} THEN DefaultSides ELSE l[Latest(ValidSidesCalls(l))][2]
LastRngArg(l) ==
    IF RngCalls(l) = {} THEN DieStdRng ELSE l[Latest(RngCalls(l))][2]

\* C1: a die that draws from the default source never panics in roll(), and
\* every value roll() has returned is at least 1 and strictly below sides.
C1_StdRollHalfOpen ==
    (pc # "builder" /\ die.rng = DieStdRng) =>
        /\ pc = "die"
        /\ \A i \in 1..Len(rolled) : 1 <= rolled[i] /\ rolled[i] < die.sides

C1_Witness ==
    /\ pc = "die" /\ die.rng = DieStdRng /\ die.sides = 6
    /\ Len(rolled) = 3 /\ rolled[1] = 1 /\ rolled[3] = 5

\* C2: sides >= 2 in every reachable state: of the builder while it is
\* live, whatever sides()/rng() calls were made on it, and of the die from
\* build() on, whatever was rolled.
C2_SidesAtLeastTwo ==
    /\ pc = "builder" => builder.sides >= 2
    /\ pc # "builder" => die.sides >= 2

C2_Witness ==
    /\ pc = "die" /\ die.sides = 2 /\ Len(rolled) = 2 /\ op = "roll"

C4_HistoryRecordsRolls ==
    pc = "die" =>
        /\ Len(get_history(die)) = Len(rolled)
        /\ \A i \in 1..Len(rolled) : get_history(die)[i] = rolled[i]
        /\ (op = "get_history" => observed = rolled)

C4_Witness ==
    /\ op = "get_history" /\ Len(observed) = 3
    /\ observed[1] # observed[2] /\ observed[2] # observed[3]

\* C5: every random_int(l, h) call roll() makes has l = 1, h = sides and
\* l < h.
C5_RollBoundsValid ==
    lastCall # NoCall =>
        /\ lastCall[1] = 1
        /\ lastCall[2] = die.sides
        /\ lastCall[1] < lastCall[2]

C5_Witness ==
    /\ op = "roll" /\ lastCall = <<1, 2>> /\ die.rng = UserRng

\* C6: with the source that returns its lower bound every roll() returns 1,
\* and with any source the value roll() returns is one the source produces
\* for the bounds (1, sides).
C6_LowerBoundSourceRollsOne ==
    pc = "die" =>
        /\ (die.rng = DieTerribleRng => \A i \in 1..Len(rolled) : rolled[i] = 1)
        /\ (op = "roll" => Last(rolled) \in random_int(die.rng, 1, die.sides))

C6_Witness ==
    /\ pc = "die" /\ die.rng = DieTerribleRng /\ die.sides = 3
    /\ rolled = <<1, 1, 1>>

\* C7: a get_history() call changes nothing of the die (sides, source,
\* history) nor of what was rolled, returns the history, and returns the
\* same vector as the get_history() call right before it.
C7_GetHistoryPure ==
    [][op' = "get_history" =>
          /\ die' = die
          /\ pc' = pc /\ rolled' = rolled /\ lastCall' = lastCall
          /\ observed' = get_history(die)
          /\ (op = "get_history" => observed' = observed)]_vars

\* Two rolls, then get_history() twice with no roll in between.
C7_Witness ==
    /\ op = "get_history" /\ reads = 2
    /\ Len(rolled) = 2 /\ observed = rolled /\ die.history = rolled

\* C8: after sides(0) the builder has the default side count, 6, whatever
\* was configured before.
C8_ZeroSidesGivesDefault ==
    (op = "sides" /\ Last(log)[2] = 0) => builder.sides = DefaultSides

\* C9: build() returns a die with the builder's sides and random source and
\* an empty history, which get_history() returns before any roll.
C9_BuildCopiesBuilder ==
    [][op' = "build" =>
          /\ die'.sides = builder.sides
          /\ die'.rng = builder.rng
          /\ die'.history = <<>>
          /\ get_history(die') = <<>>]_vars

C9_Witness ==
    /\ op = "build" /\ die.sides = 3 /\ die.rng = UserRng
    /\ get_history(die) = <<>>

====
